---- MODULE Spec2Model ----
(***************************************************************************)
(* The data-validation script (src/unnamed/part_000) and the slug/sort     *)
(* maintenance script (src/scripts/add-slugs.ts) of the tool directory.    *)
(*                                                                         *)
(* Strings are sequences of tokens.  A url is built from the tokens        *)
(* SP (one whitespace character), the scheme prefixes, opaque host text    *)
(* and REQUIRED_REF; a file name from opaque text and the token DOTJSON.   *)
(* trim, startsWith, includes, endsWith and replace work on the tokens as  *)
(* the JavaScript methods work on the characters.                          *)
(***************************************************************************)
EXTENDS Integers, Sequences, FiniteSets, TLC

VARIABLES pc, root, category, tool, totalTools, splitToolsChecked, urlMap,
          issues, duplicates, file, splitFiles, primaryRecords,
          stdout, stderr, exitCode,
          spc, sdata, disk, modified, generated, sorted, writes, runs

vvars == <<pc, root, category, tool, totalTools, splitToolsChecked, urlMap,
           issues, duplicates, file, splitFiles, primaryRecords,
           stdout, stderr, exitCode>>
svars == <<spc, sdata, disk, modified, generated, sorted, writes, runs>>
vars == <<vvars, svars>>

(***************************************************************************)
(* Bounds of the model.                                                    *)
(***************************************************************************)
MaxItems == 4
MaxDupItems == 5
MaxDupSplit == 1
MaxTitleLen == 2
MaxSlugTools == 2
MaxRuns == 2

(***************************************************************************)
(* String tokens and string methods.                                       *)
(***************************************************************************)
SP == "sp"
HTTP == "http://"
HTTPS == "https://"
REQUIRED_REF == "?ref=riseofmachine.com"
DOTJSON == ".json"

RECURSIVE TrimStart(_)
TrimStart(s) ==
  IF s # <<>> /\ Head(s) = SP THEN TrimStart(Tail(s)) ELSE s

RECURSIVE TrimEnd(_)
TrimEnd(s) ==
  IF s # <<>> /\ s[Len(s)] = SP THEN TrimEnd(SubSeq(s, 1, Len(s) - 1)) ELSE s

Trim(s) == TrimEnd(TrimStart(s))

StartsWith(s, p) == Len(s) >= Len(p) /\ SubSeq(s, 1, Len(p)) = p

EndsWith(s, p) ==
  Len(s) >= Len(p) /\ SubSeq(s, Len(s) - Len(p) + 1, Len(s)) = p

Includes(s, p) ==
  \E i \in 1..(Len(s) - Len(p) + 1) : SubSeq(s, i, i + Len(p) - 1) = p

\* String.prototype.replace with a string pattern: the first occurrence only.
ReplaceFirst(s, p) ==
  IF Includes(s, p)
  THEN LET i == CHOOSE k \in 1..(Len(s) - Len(p) + 1) :
                  /\ SubSeq(s, k, k + Len(p) - 1) = p
                  /\ \A j \in 1..(k - 1) : SubSeq(s, j, j + Len(p) - 1) # p
       IN SubSeq(s, 1, i - 1) \o SubSeq(s, i + Len(p), Len(s))
  ELSE s

(***************************************************************************)
(* JSON values of the url property: a string, a number, or no property.    *)
(***************************************************************************)
Undefined == [kind |-> "undefined", s |-> <<>>]
Num == [kind |-> "number", s |-> <<>>]
Str(s) == [kind |-> "string", s |-> s]

\* !v for these values: undefined and the empty string are falsy.
Falsy(v) == v.kind = "undefined" \/ (v.kind = "string" /\ v.s = <<>>)

\* v?.trim(): undefined stays undefined; a number has no trim (TypeError).
TrimThrows(v) == v.kind = "number"
OptTrim(v) == IF v.kind = "string" THEN Str(Trim(v.s)) ELSE Undefined

\* v.startsWith(...): only strings have it (TypeError otherwise).
NoProtocol(s) == ~StartsWith(s, <<HTTP>>) /\ ~StartsWith(s, <<HTTPS>>)
NoRef(s) == ~Includes(s, <<REQUIRED_REF>>)

(***************************************************************************)
(* Inputs.                                                                 *)
(***************************************************************************)
GoodA == <<HTTPS, "a.com", REQUIRED_REF>>
GoodB == <<HTTPS, "b.com", REQUIRED_REF>>

UrlStrings ==
  { <<>>, <<SP>>, GoodA, <<SP>> \o GoodA,
    <<HTTP, "a.com">>, <<"ftp://", "x.com">>, <<"a.com", REQUIRED_REF>> }

UrlValues == {Undefined, Num} \cup {Str(s) : s \in UrlStrings}

NullTool == [kind |-> "null", title |-> "", slug |-> "", url |-> Undefined]
Obj(t, sl, u) == [kind |-> "object", title |-> t, slug |-> sl, url |-> u]

Tools == {NullTool} \cup {Obj("t1", "s1", u) : u \in UrlValues}

\* Well-formed records for the duplicate index: two urls, one of them also
\* written with leading whitespace.
DupTools ==
  { Obj("t1", "s1", Str(GoodA)), Obj("t2", "s1", Str(<<SP>> \o GoodA)),
    Obj("t1", "s1", Str(GoodB)), Obj("t2", "s1", Str(GoodB)) }
DupSplitTools == {Obj("t1", "s1", Str(GoodA))}

\* An element of data.tools: an object with a content array, an object
\* without one, or null.
Categories ==
  { [kind |-> "object", category |-> <<"c1">>, content |-> TRUE],
    [kind |-> "object", category |-> <<"c2">>, content |-> FALSE],
    [kind |-> "null", category |-> <<>>, content |-> FALSE] }
DupCategories == { [kind |-> "object", category |-> <<"c1">>, content |-> TRUE] }
NoCategory == [kind |-> "none", category |-> <<>>, content |-> FALSE]

\* The parsed root of tools.json.
Roots == {"unreadable", "null", "notools", "toolsnotarray", "ok"}

\* Directory entries of src/data/tools and what their content parses to.
FileNames ==
  { <<"a", DOTJSON>>, <<"a", DOTJSON, "b", DOTJSON>>, <<"notes.txt">> }
Bodies == {"badjson", "object", "array"}
NoFile == [name |-> <<>>, body |-> "none", categoryName |-> <<>>]
NoTool == [source |-> "none", tool |-> NullTool]

(***************************************************************************)
(* The validation script, src/unnamed/part_000.                            *)
(***************************************************************************)
NoField == [kind |-> "nofield", s |-> <<>>]
ToolInfo(t, cat, u) == [title |-> t.title, category |-> cat, slug |-> t.slug, url |-> u]

EmptyIssues ==
  [missing_url |-> <<>>, missing_protocol |-> <<>>, missing_ref |-> <<>>,
   invalid_structure |-> <<>>]

\* The catch block: a diagnostic on stderr and exit code 1.
Catch ==
  /\ stderr' = Append(stderr, "Error reading tools.json")
  /\ exitCode' = 1
  /\ pc' = "done"

\* Lines 33-56 evaluated on one record of data.tools[i].content: the buckets
\* that receive a finding.
PrimaryThrows(t) == t.kind = "null" \/ TrimThrows(t.url)

PrimaryFindings(t) ==
  LET url == OptTrim(t.url)
  IN IF Falsy(url) THEN {"missing_url"}
     ELSE (IF NoProtocol(url.s) THEN {"missing_protocol"} ELSE {})
          \cup (IF NoRef(url.s) THEN {"missing_ref"} ELSE {})

PrimaryPush(iss, t, cat) ==
  LET url == OptTrim(t.url)
      toolInfo == ToolInfo(t, cat, NoField)
      withUrl == ToolInfo(t, cat, url)
      fs == PrimaryFindings(t)
  IN [iss EXCEPT
        !.missing_url = IF "missing_url" \in fs THEN Append(@, toolInfo) ELSE @,
        !.missing_protocol = IF "missing_protocol" \in fs THEN Append(@, withUrl) ELSE @,
        !.missing_ref = IF "missing_ref" \in fs THEN Append(@, withUrl) ELSE @]

\* Lines 58-62: urlMap is a Map, kept here as its entries in insertion order.
HasUrl(map, url) == \E i \in 1..Len(map) : map[i].url = url

TrackUrl(map, url, toolInfo) ==
  IF HasUrl(map, url)
  THEN [i \in 1..Len(map) |->
          IF map[i].url = url
          THEN [map[i] EXCEPT !.tools = Append(@, toolInfo)]
          ELSE map[i]]
  ELSE Append(map, [url |-> url, tools |-> <<toolInfo>>])

\* Lines 88-108 evaluated on one entry of a split file.
SplitThrows(t) == t.kind = "null" \/ (~Falsy(t.url) /\ t.url.kind # "string")

SplitFindings(t) ==
  IF Falsy(t.url) THEN {"missing_url"}
  ELSE (IF NoProtocol(t.url.s) THEN {"missing_protocol"} ELSE {})
       \cup (IF NoRef(t.url.s) THEN {"missing_ref"} ELSE {})

SplitPush(iss, t, cat) ==
  LET toolInfo == ToolInfo(t, cat, t.url)
      fs == SplitFindings(t)
  IN [iss EXCEPT
        !.missing_url = IF "missing_url" \in fs THEN Append(@, toolInfo) ELSE @,
        !.missing_protocol = IF "missing_protocol" \in fs THEN Append(@, toolInfo) ELSE @,
        !.missing_ref = IF "missing_ref" \in fs THEN Append(@, toolInfo) ELSE @]

\* Array.prototype.sort with (a, b) => b[1].length - a[1].length: a stable
\* sort, descending by the number of owners.
InsertDescUnstable(e, s) ==
  LET before == {i \in 1..Len(s) : Len(s[i].tools) > Len(e.tools)}
      k == Cardinality(before)
  IN SubSeq(s, 1, k) \o <<e>> \o SubSeq(s, k + 1, Len(s))

InsertDesc(e, s) ==
  LET before == {i \in 1..Len(s) : Len(s[i].tools) >= Len(e.tools)}
      k == Cardinality(before)
  IN SubSeq(s, 1, k) \o <<e>> \o SubSeq(s, k + 1, Len(s))

RECURSIVE SortByCountDesc(_)
SortByCountDesc(s) ==
  IF s = <<>> THEN <<>>
  ELSE InsertDesc(s[Len(s)], SortByCountDesc(SubSeq(s, 1, Len(s) - 1)))

MoreThanOne(e) == Len(e.tools) > 1

FilterDuplicates(map) == SelectSeq(map, MoreThanOne)

\* Lines 118-172 and 181-182.
HasIssuesNoStructure(iss, dups) ==
  \/ Len(iss.missing_url) > 0
  \/ Len(iss.missing_protocol) > 0
  \/ Len(iss.missing_ref) > 0
  \/ Len(dups) > 0

HasIssues(iss, dups) ==
  \/ Len(iss.missing_url) > 0
  \/ Len(iss.missing_protocol) > 0
  \/ Len(iss.missing_ref) > 0
  \/ Len(dups) > 0
  \/ Len(iss.invalid_structure) > 0

RECURSIVE OwnerCount(_)
OwnerCount(dups) ==
  IF dups = <<>> THEN 0 ELSE Len(Head(dups).tools) + OwnerCount(Tail(dups))

IssueCountRecords(iss, dups) ==
  Len(iss.missing_url) + Len(iss.missing_protocol) + Len(iss.missing_ref)
    + Len(iss.invalid_structure) + OwnerCount(dups)

IssueCount(iss, dups) ==
  Len(iss.missing_url) + Len(iss.missing_protocol) + Len(iss.missing_ref)
    + Len(iss.invalid_structure) + Len(dups)

Line(tag, n) == [tag |-> tag, n |-> n]
Section(tag, n) == IF n > 0 THEN <<Line(tag, n)>> ELSE <<>>

ReportLines(iss, dups, total, split, unique) ==
  <<Line("header", total)>> \o Section("split", split) \o <<Line("unique", unique)>>
    \o Section("missing_url", Len(iss.missing_url))
    \o Section("missing_protocol", Len(iss.missing_protocol))
    \o Section("missing_ref", Len(iss.missing_ref))
    \o Section("duplicates", Len(dups))
    \o Section("invalid_structure", Len(iss.invalid_structure))
    \o <<Line("rule", 0)>>
    \o (IF ~HasIssues(iss, dups)
        THEN <<Line("success", 0)>>
        ELSE <<Line("summary", IssueCount(iss, dups))>>)

InitValidator ==
  /\ pc = "start"
  /\ root = "none"
  /\ category = NoCategory
  /\ tool = NoTool
  /\ totalTools = 0
  /\ splitToolsChecked = 0
  /\ urlMap = <<>>
  /\ issues = EmptyIssues
  /\ duplicates = <<>>
  /\ file = NoFile
  /\ splitFiles = <<>>
  /\ primaryRecords = <<>>
  /\ stdout = <<>>
  /\ stderr = <<>>
  /\ exitCode = -1

\* Lines 13-18 (and the catch block for a file that does not parse, or
\* parses to null).
InvalidStructure(r) == r \in {"notools", "toolsnotarray"}

LoadPrimaryLenient(r) ==
  /\ pc = "start"
  /\ root' = r
  /\ IF r \in {"unreadable", "null"}
     THEN Catch /\ UNCHANGED stdout
     ELSE /\ pc' = "primary"
          /\ UNCHANGED <<stderr, exitCode, stdout>>
  /\ UNCHANGED <<category, tool, totalTools, splitToolsChecked, urlMap, issues,
                 duplicates, file, splitFiles, primaryRecords>>

LoadPrimary(r) ==
  /\ pc = "start"
  /\ root' = r
  /\ IF r \in {"unreadable", "null"}
     THEN Catch /\ UNCHANGED stdout
     ELSE IF InvalidStructure(r)
     THEN /\ stderr' = Append(stderr, "Invalid tools.json structure")
          /\ exitCode' = 1
          /\ pc' = "done"
          /\ UNCHANGED stdout
     ELSE /\ pc' = "primary"
          /\ UNCHANGED <<stderr, exitCode, stdout>>
  /\ UNCHANGED <<category, tool, totalTools, splitToolsChecked, urlMap, issues,
                 duplicates, file, splitFiles, primaryRecords>>

\* Lines 30-31: the next element of data.tools.
PrimaryCategory(c) ==
  /\ pc = "primary"
  /\ category' = c
  /\ IF c.kind = "null"
     THEN Catch
     ELSE UNCHANGED <<pc, stderr, exitCode>>
  /\ UNCHANGED <<root, tool, totalTools, splitToolsChecked, urlMap, issues,
                 duplicates, file, splitFiles, primaryRecords, stdout>>

\* Lines 32-63: the next element of category.content.
PrimaryTool(t) ==
  /\ pc = "primary"
  /\ category.kind = "object" /\ category.content
  /\ totalTools' = totalTools + 1
  /\ tool' = [source |-> "primary", tool |-> t]
  /\ primaryRecords' = Append(primaryRecords, [category |-> category.category, tool |-> t])
  /\ IF PrimaryThrows(t)
     THEN Catch /\ UNCHANGED <<issues, urlMap>>
     ELSE /\ issues' = PrimaryPush(issues, t, category.category)
          /\ urlMap' = IF Falsy(OptTrim(t.url))
                       THEN urlMap
                       ELSE TrackUrl(urlMap, OptTrim(t.url).s,
                                     ToolInfo(t, category.category, NoField))
          /\ UNCHANGED <<pc, stderr, exitCode>>
  /\ UNCHANGED <<root, category, splitToolsChecked, duplicates, file,
                 splitFiles, stdout>>

\* Lines 68-76: the duplicate groups, then the split directory if there is one.
FindDuplicates(dirExists) ==
  /\ pc = "primary"
  /\ duplicates' = SortByCountDesc(FilterDuplicates(urlMap))
  /\ pc' = IF dirExists THEN "split" ELSE "report"
  /\ category' = NoCategory
  /\ UNCHANGED <<root, tool, totalTools, splitToolsChecked, urlMap, issues, file,
                 splitFiles, primaryRecords, stdout, stderr, exitCode>>

\* Lines 76-86: the next directory entry; entries that do not end in .json
\* are filtered out.
CategoryName(name) == ReplaceFirst(name, <<DOTJSON>>)

SplitFile(name, body) ==
  /\ pc = "split"
  /\ IF ~EndsWith(name, <<DOTJSON>>)
     THEN UNCHANGED <<file, splitFiles, issues, pc, stderr, exitCode>>
     ELSE /\ splitFiles' = Append(splitFiles, [name |-> name, body |-> body])
          /\ file' = [name |-> name, body |-> body, categoryName |-> CategoryName(name)]
          /\ IF body = "badjson"
             THEN Catch /\ UNCHANGED issues
             ELSE /\ issues' = IF body # "array"
                               THEN [issues EXCEPT !.invalid_structure =
                                       Append(@, [category |-> CategoryName(name),
                                                  data |-> body])]
                               ELSE issues
                  /\ UNCHANGED <<pc, stderr, exitCode>>
  /\ UNCHANGED <<root, category, tool, totalTools, splitToolsChecked, urlMap,
                 duplicates, primaryRecords, stdout>>

\* Lines 88-109: the next element of categoryData.
SplitTool(t) ==
  /\ pc = "split"
  /\ file.body = "array"
  /\ splitToolsChecked' = splitToolsChecked + 1
  /\ tool' = [source |-> "split", tool |-> t]
  /\ IF SplitThrows(t)
     THEN Catch /\ UNCHANGED issues
     ELSE /\ issues' = SplitPush(issues, t, file.categoryName)
          /\ UNCHANGED <<pc, stderr, exitCode>>
  /\ UNCHANGED <<root, category, totalTools, urlMap, duplicates, file,
                 splitFiles, primaryRecords, stdout>>

\* Lines 113-185: the report and the exit code.
Report ==
  /\ pc \in {"split", "report"}
  /\ stdout' = stdout \o ReportLines(issues, duplicates, totalTools,
                                     splitToolsChecked, Len(urlMap))
  /\ exitCode' = IF HasIssues(issues, duplicates) THEN 1 ELSE 0
  /\ pc' = "done"
  /\ UNCHANGED <<root, category, tool, totalTools, splitToolsChecked, urlMap, issues,
                 duplicates, file, splitFiles, primaryRecords, stderr>>

(***************************************************************************)
(* The slug/sort maintenance script, src/scripts/add-slugs.ts.  A title or *)
(* slug is a sequence of characters from TitleChars; SP is a whitespace    *)
(* character, "!" a character outside [A-Za-z0-9_-].  The script treats    *)
(* every category alike and independently, so one category is modelled.    *)
(***************************************************************************)
TitleChars == {"A", "b", SP, "!", "-"}

ToLowerCase(s) == [i \in 1..Len(s) |-> IF s[i] = "A" THEN "a" ELSE s[i]]

\* replace(/\s+/g, '-')
RECURSIVE SpacesToHyphen(_)
SpacesToHyphen(s) ==
  IF s = <<>> THEN <<>>
  ELSE IF Head(s) = SP THEN <<"-">> \o SpacesToHyphen(TrimStart(s))
  ELSE <<Head(s)>> \o SpacesToHyphen(Tail(s))

\* replace(/[^\w-]+/g, '')
WordOrHyphen(c) == c \in {"A", "a", "b", "-"}
RemoveNonWord(s) == SelectSeq(s, WordOrHyphen)

\* replace(/--+/g, '-')
RECURSIVE DropHyphens(_)
DropHyphens(s) ==
  IF s # <<>> /\ Head(s) = "-" THEN DropHyphens(Tail(s)) ELSE s

RECURSIVE CollapseHyphens(_)
CollapseHyphens(s) ==
  IF s = <<>> THEN <<>>
  ELSE IF Head(s) = "-" THEN <<"-">> \o CollapseHyphens(DropHyphens(s))
  ELSE <<Head(s)>> \o CollapseHyphens(Tail(s))

\* replace(/^-+/, '') and replace(/-+$/, '')
RECURSIVE DropTrailingHyphens(_)
DropTrailingHyphens(s) ==
  IF s # <<>> /\ s[Len(s)] = "-"
  THEN DropTrailingHyphens(SubSeq(s, 1, Len(s) - 1))
  ELSE s

slugify(text) ==
  DropTrailingHyphens(DropHyphens(CollapseHyphens(RemoveNonWord(
    SpacesToHyphen(Trim(ToLowerCase(text)))))))

\* a.title.localeCompare(b.title) < 0: collation order, character by
\* character, whitespace and punctuation before letters, a prefix first.
Rank(c) ==
  CASE c = SP -> 1 [] c = "-" -> 2 [] c = "!" -> 3 [] c \in {"A", "a"} -> 4 [] OTHER -> 5

RECURSIVE Before(_, _)
Before(a, b) ==
  IF b = <<>> THEN FALSE
  ELSE IF a = <<>> THEN TRUE
  ELSE IF Rank(Head(a)) # Rank(Head(b)) THEN Rank(Head(a)) < Rank(Head(b))
  ELSE Before(Tail(a), Tail(b))

\* Array.prototype.sort by title: stable.
InsertByTitle(e, s) ==
  LET k == Cardinality({i \in 1..Len(s) : ~Before(e.title, s[i].title)})
  IN SubSeq(s, 1, k) \o <<e>> \o SubSeq(s, k + 1, Len(s))

RECURSIVE SortByTitle(_)
SortByTitle(s) ==
  IF s = <<>> THEN <<>>
  ELSE InsertByTitle(s[Len(s)], SortByTitle(SubSeq(s, 1, Len(s) - 1)))

\* Lines 30-36.
GenerateSlug(t) ==
  IF Falsy(t.slug) THEN [t EXCEPT !.slug = Str(slugify(t.title))] ELSE t

GenerateSlugs(content) == [i \in 1..Len(content) |-> GenerateSlug(content[i])]

MissingSlugs(content) == Cardinality({i \in 1..Len(content) : Falsy(content[i].slug)})

RECURSIVE SeqsUpTo(_, _)
SeqsUpTo(S, n) ==
  IF n = 0 THEN {<<>>}
  ELSE LET shorter == SeqsUpTo(S, n - 1)
       IN shorter \cup {Append(q, x) : q \in {r \in shorter : Len(r) = n - 1}, x \in S}

Titles == SeqsUpTo(TitleChars, MaxTitleLen)
SlugTools == [title : Titles, slug : {Undefined, Str(<<"b">>)}]
Contents == SeqsUpTo(SlugTools, MaxSlugTools)

InitSlugOff ==
  /\ spc = "off"
  /\ sdata = <<>>
  /\ disk = <<>>
  /\ modified = FALSE
  /\ generated = 0
  /\ sorted = FALSE
  /\ writes = 0
  /\ runs = 0

\* tools.json as some earlier edit left it; the script has not run yet.
InitSlug ==
  /\ spc = "idle"
  /\ sdata = <<>>
  /\ disk \in Contents
  /\ modified = FALSE
  /\ generated = 0
  /\ sorted = FALSE
  /\ writes = 0
  /\ runs = 0

\* Lines 25-26: one run of the script starts.  JSON.parse of what
\* JSON.stringify wrote gives back the same titles and slugs (an undefined
\* slug is not written and reads back undefined).
SlugLoad ==
  /\ spc = "idle"
  /\ runs < MaxRuns
  /\ runs' = runs + 1
  /\ sdata' = disk
  /\ modified' = FALSE
  /\ generated' = 0
  /\ sorted' = FALSE
  /\ spc' = "slugs"
  /\ UNCHANGED <<disk, writes>>

\* Lines 30-36: generate the missing slugs.
SlugGenerate ==
  /\ spc = "slugs"
  /\ sdata' = GenerateSlugs(sdata)
  /\ generated' = MissingSlugs(sdata)
  /\ modified' = (modified \/ MissingSlugs(sdata) > 0)
  /\ spc' = "sort"
  /\ UNCHANGED <<disk, sorted, writes, runs>>

\* Lines 39-46: sort by title and compare with the original order.
SlugSort ==
  /\ spc = "sort"
  /\ sdata' = SortByTitle(sdata)
  /\ sorted' = (SortByTitle(sdata) # sdata)
  /\ modified' = (modified \/ SortByTitle(sdata) # sdata)
  /\ spc' = "write"
  /\ UNCHANGED <<disk, generated, writes, runs>>

\* Lines 49-54: write the file when something changed.
SlugWrite ==
  /\ spc = "write"
  /\ IF modified
     THEN disk' = sdata /\ writes' = writes + 1
     ELSE UNCHANGED <<disk, writes>>
  /\ spc' = "idle"
  /\ UNCHANGED <<sdata, modified, generated, sorted, runs>>

\* The model reads at most max records and split files in one run.
Budget(max) == totalTools + splitToolsChecked + Len(splitFiles) < max

Init == InitValidator /\ InitSlugOff

Next ==
  \/ \E r \in Roots : LoadPrimary(r) /\ UNCHANGED svars
  \/ \E c \in Categories : PrimaryCategory(c) /\ UNCHANGED svars
  \/ \E t \in Tools : Budget(MaxItems) /\ PrimaryTool(t) /\ UNCHANGED svars
  \/ \E d \in BOOLEAN : FindDuplicates(d) /\ UNCHANGED svars
  \/ \E n \in FileNames, b \in Bodies :
       Budget(MaxItems) /\ SplitFile(n, b) /\ UNCHANGED svars
  \/ \E t \in Tools : Budget(MaxItems) /\ SplitTool(t) /\ UNCHANGED svars
  \/ Report /\ UNCHANGED svars

Spec == Init /\ [][Next]_vars

\* Runs over well-formed records only, long enough for several duplicate
\* groups of different sizes.
NextDup ==
  \/ LoadPrimary("ok") /\ UNCHANGED svars
  \/ \E c \in DupCategories : PrimaryCategory(c) /\ UNCHANGED svars
  \/ \E t \in DupTools : totalTools < MaxDupItems /\ PrimaryTool(t) /\ UNCHANGED svars
  \/ \E d \in BOOLEAN : FindDuplicates(d) /\ UNCHANGED svars
  \/ Len(splitFiles) < MaxDupSplit /\ SplitFile(<<"a", DOTJSON>>, "array")
       /\ UNCHANGED svars
  \/ \E t \in DupSplitTools :
       splitToolsChecked < MaxDupSplit /\ SplitTool(t) /\ UNCHANGED svars
  \/ Report /\ UNCHANGED svars

SpecDup == Init /\ [][NextDup]_vars

\* The maintenance script run twice in a row on the same file.
NextSlug ==
  \/ SlugLoad /\ UNCHANGED vvars
  \/ SlugGenerate /\ UNCHANGED vvars
  \/ SlugSort /\ UNCHANGED vvars
  \/ SlugWrite /\ UNCHANGED vvars

InitSlugRun == InitValidator /\ InitSlug

SpecSlug == InitSlugRun /\ [][NextSlug]_vars

(***************************************************************************)
(* Properties.                                                             *)
(***************************************************************************)
Last(s) == s[Len(s)]

\* A step that reads one record, from either stream; the record is tool'.
ReadsPrimaryRecord == totalTools' = totalTools + 1
ReadsSplitRecord == splitToolsChecked' = splitToolsChecked + 1
ReadsRecord == ReadsPrimaryRecord \/ ReadsSplitRecord

\* The buckets that receive exactly one more finding in a step (no bucket
\* ever receives more than one, or loses one).
Grown ==
  {b \in {"missing_url", "missing_protocol", "missing_ref"} :
     Len(issues'[b]) = Len(issues[b]) + 1}
Stable ==
  {b \in {"missing_url", "missing_protocol", "missing_ref"} : issues'[b] = issues[b]}

UrlMissing(t) ==
  t.kind = "object"
    /\ (t.url.kind = "undefined" \/ (t.url.kind = "string" /\ Trim(t.url.s) = <<>>))
UrlPresent(t) ==
  t.kind = "object" /\ t.url.kind = "string" /\ Trim(t.url.s) # <<>>

\* C1: a record of either stream whose url is absent or empty after trimming
\* gets exactly one finding, in missing_url, and none in missing_protocol or
\* missing_ref.
C1_MissingUrlOnly ==
  [][ReadsRecord /\ UrlMissing(tool'.tool) =>
       /\ Grown = {"missing_url"}
       /\ Stable = {"missing_protocol", "missing_ref"}]_vars

\* C2: a finished run has exit code 0 exactly when the report was reached
\* with the four buckets and the duplicate set empty; otherwise it has 1.
C2_Verdict ==
  pc = "done" =>
    /\ exitCode \in {0, 1}
    /\ exitCode = 0 <=>
         /\ stdout # <<>>
         /\ issues.missing_url = <<>>
         /\ issues.missing_protocol = <<>>
         /\ issues.missing_ref = <<>>
         /\ issues.invalid_structure = <<>>
         /\ duplicates = <<>>

C2_Witness ==
  pc = "done" /\ exitCode = 0 /\ totalTools > 0 /\ splitToolsChecked > 0

\* The primary records that declare the trimmed url key, in traversal order.
Declares(r, key) == UrlPresent(r.tool) /\ Trim(r.tool.url.s) = key

RECURSIVE OwnersOf(_, _)
OwnersOf(recs, key) ==
  IF recs = <<>> THEN <<>>
  ELSE (IF Declares(Head(recs), key)
        THEN <<ToolInfo(Head(recs).tool, Head(recs).category, NoField)>>
        ELSE <<>>) \o OwnersOf(Tail(recs), key)

FirstSeen(key) ==
  CHOOSE i \in 1..Len(primaryRecords) :
    /\ Declares(primaryRecords[i], key)
    /\ \A j \in 1..(i - 1) : ~Declares(primaryRecords[j], key)

Traversed == pc \in {"split", "report"} \/ (pc = "done" /\ stdout # <<>>)

\* C3: after traversal the duplicate set holds exactly the trimmed url keys
\* that more than one primary record declares (split records add no owner),
\* each with its owners in traversal order, by descending owner count, and
\* groups of equal count in the order their url was first met.
C3_Duplicates ==
  Traversed =>
    /\ \A i \in 1..Len(duplicates) :
         /\ duplicates[i].tools = OwnersOf(primaryRecords, duplicates[i].url)
         /\ Len(duplicates[i].tools) > 1
    /\ \A k \in 1..Len(primaryRecords) :
         LET key == Trim(primaryRecords[k].tool.url.s)
         IN (UrlPresent(primaryRecords[k].tool)
               /\ Len(OwnersOf(primaryRecords, key)) > 1)
            => \E i \in 1..Len(duplicates) : duplicates[i].url = key
    /\ \A i, j \in 1..Len(duplicates) :
         i < j =>
           /\ duplicates[i].url # duplicates[j].url
           /\ \/ Len(duplicates[i].tools) > Len(duplicates[j].tools)
              \/ /\ Len(duplicates[i].tools) = Len(duplicates[j].tools)
                 /\ FirstSeen(duplicates[i].url) < FirstSeen(duplicates[j].url)

\* The larger group was met second and is listed first; one of its owners
\* declared the url with leading whitespace; a split record was read too.
C3_Witness ==
  /\ pc = "done"
  /\ Len(duplicates) = 2
  /\ Len(duplicates[1].tools) > Len(duplicates[2].tools)
  /\ FirstSeen(duplicates[1].url) > FirstSeen(duplicates[2].url)
  /\ splitToolsChecked > 0
  /\ \E k \in 1..Len(primaryRecords) :
       /\ Trim(primaryRecords[k].tool.url.s) = duplicates[1].url
       /\ primaryRecords[k].tool.url.s # duplicates[1].url

\* C4: once tools.json has parsed to an object with a tools array, a
\* malformed record or split file never ends the run in the catch block:
\* the run ends with the report.
C4_NonFatal ==
  (pc = "done" /\ root = "ok" /\ category.kind # "null") =>
    (stdout # <<>> /\ stderr = <<>>)

\* C5 as claimed: every run that reaches the report ends it with the
\* numeric summary, also when there is no issue.
C5_SummaryAlways ==
  (pc = "done" /\ stdout # <<>>) =>
    Last(stdout) = Line("summary",
      Len(issues.missing_url) + Len(issues.missing_protocol) + Len(issues.missing_ref)
        + Len(issues.invalid_structure) + Len(duplicates))

\* C5 amended: a run that reaches the report with at least one issue ends it
\* with the summary, the four bucket sizes plus the number of duplicate
\* groups; a run with no issue ends it with the success line and prints no
\* summary.
C5_SummaryOnIssues ==
  (pc = "done" /\ stdout # <<>>) =>
    LET n == Len(issues.missing_url) + Len(issues.missing_protocol)
               + Len(issues.missing_ref) + Len(issues.invalid_structure)
               + Len(duplicates)
    IN IF n > 0
       THEN Last(stdout) = Line("summary", n)
       ELSE /\ Last(stdout) = Line("success", 0)
            /\ \A i \in 1..Len(stdout) : stdout[i].tag # "summary"

C5_Witness ==
  /\ pc = "done"
  /\ Len(duplicates) = 1
  /\ Len(duplicates[1].tools) > 1
  /\ issues.invalid_structure # <<>>
  /\ stdout # <<>>
  /\ Last(stdout).tag = "summary"

\* The file name without its .json extension.
WithoutExtension(name) ==
  IF EndsWith(name, <<DOTJSON>>) THEN SubSeq(name, 1, Len(name) - 1) ELSE name

IsNotArray(f) == f.body \notin {"array", "badjson"}

\* C6: every split file that parses to something other than an array leaves
\* exactly one invalid_structure finding, naming the file without its .json
\* extension, and the run still ends with the report.
C6_InvalidStructure ==
  LET bad == SelectSeq(splitFiles, IsNotArray)
  IN /\ Len(issues.invalid_structure) = Len(bad)
     /\ \A i \in 1..Len(bad) :
          issues.invalid_structure[i].category = WithoutExtension(bad[i].name)
     /\ (pc = "done" /\ bad # <<>>) => stdout # <<>>

\* C7: for a record whose trimmed url is not empty, missing_protocol gets a
\* finding exactly when the url begins with neither http:// nor https://, and
\* missing_ref exactly when it does not contain the marker, each whatever the
\* other does.
C7_Independent ==
  [][ReadsRecord /\ UrlPresent(tool'.tool) =>
       /\ "missing_url" \in Stable
       /\ "missing_protocol" \in Grown <=> NoProtocol(Trim(tool'.tool.url.s))
       /\ "missing_protocol" \notin Grown => "missing_protocol" \in Stable
       /\ "missing_ref" \in Grown <=> NoRef(Trim(tool'.tool.url.s))
       /\ "missing_ref" \notin Grown => "missing_ref" \in Stable]_vars

\* C8: a root without a tools array ends the run at once with exit code 1:
\* no record, no split file, no report.
C8_FatalRoot ==
  root \in {"notools", "toolsnotarray"} =>
    /\ pc = "done"
    /\ exitCode = 1
    /\ stdout = <<>>
    /\ totalTools = 0
    /\ splitToolsChecked = 0
    /\ splitFiles = <<>>
    /\ issues = EmptyIssues

C8_Witness == root = "notools" /\ pc = "done" /\ stderr # <<>>

\* C9: a record read from a split file gets the findings the same record
\* gets when read from the primary dataset.
C9_SameValidation ==
  [][(ReadsSplitRecord /\ tool'.tool.kind = "object") =>
       IF PrimaryThrows(tool'.tool)
       THEN pc' = "done" /\ stdout' = <<>>
       ELSE Grown = PrimaryFindings(tool'.tool) /\ pc' = pc]_vars

\* C10: a second run of the maintenance script on the file the first run
\* left generates no slug, changes no order and does not write.
C10_Idempotent ==
  (runs = 2 /\ spc = "idle") =>
    /\ generated = 0
    /\ ~sorted
    /\ ~modified
    /\ writes <= 1

====
